---- MODULE Spec2Model ----
(***************************************************************************)
(* Model of the GridCalculator component                                   *)
(* (src/src/components/GridCalculator.tsx).                                *)
(*                                                                         *)
(* State: the three useState cells (settings, isGenerating, showGrid), the *)
(* pending setTimeout callbacks of generateGrid, the html2canvas promises  *)
(* of exportGrid that have not settled yet (each with the settings its     *)
(* closure captured), and the last handler that ran together with what it  *)
(* emitted to the outside world (a download, a console.error line).        *)
(*                                                                         *)
(* Text of an <input> is a sequence of one-character strings.  All numbers *)
(* the component handles here are integers far below 2^53, so the IEEE     *)
(* double arithmetic of the source is exact on them and is modelled with   *)
(* integer arithmetic; the one non-integer computation, the percentage of  *)
(* exportCSS, is modelled as the exact rational rounded to four decimals,  *)
(* which is what Number.prototype.toFixed(4) prints as long as the exact   *)
(* quotient is not within 1e-9 of a rounding tie; for column counts below  *)
(* 128 it never is a tie (a tie needs the factor 2^7 in the denominator).  *)
(***************************************************************************)
EXTENDS Integers, Sequences, FiniteSets, TLC

VARIABLES settings, isGenerating, showGrid, timers, captures, last

vars == <<settings, isGenerating, showGrid, timers, captures, last>>

\* Number of exportGrid calls whose html2canvas promise may be pending at once.
MaxCaptures == 1

Fields == {"maxWidth", "columns", "gutterWidth", "marginWidth"}

\* useState initial value, lines 13-18.
InitialSettings ==
    [maxWidth |-> 1200, columns |-> 12, gutterWidth |-> 20, marginWidth |-> 40]

\* The max attribute of the columns input, line 226.
MaxColumns == 24

-----------------------------------------------------------------------------
(* parseInt(string) of ECMAScript, without a radix argument.               *)

WhiteSpace == {" ", "\t", "\n"}

DecimalDigits == {"0", "1", "2", "3", "4", "5", "6", "7", "8", "9"}

HexDigits == DecimalDigits \cup {"a", "b", "c", "d", "e", "f"}

DigitValue(c) ==
    CASE c = "0" -> 0 [] c = "1" -> 1 [] c = "2" -> 2 [] c = "3" -> 3
      [] c = "4" -> 4 [] c = "5" -> 5 [] c = "6" -> 6 [] c = "7" -> 7
      [] c = "8" -> 8 [] c = "9" -> 9 [] c = "a" -> 10 [] c = "b" -> 11
      [] c = "c" -> 12 [] c = "d" -> 13 [] c = "e" -> 14 [] c = "f" -> 15

\* A parsed number: NaN, or an integer with its sign (so that -0 is kept
\* apart from 0 until the || operator looks at it).
NaN == [nan |-> TRUE, num |-> 0]

Number(n) == [nan |-> FALSE, num |-> n]

RECURSIVE TrimStart(_)
TrimStart(s) ==
    IF s # <<>> /\ Head(s) \in WhiteSpace THEN TrimStart(Tail(s)) ELSE s

\* The longest prefix of s made of digits of the radix.
RECURSIVE DigitPrefix(_, _)
DigitPrefix(s, digits) ==
    IF s # <<>> /\ Head(s) \in digits
    THEN <<Head(s)>> \o DigitPrefix(Tail(s), digits)
    ELSE <<>>

RECURSIVE DigitsToInteger(_, _, _)
DigitsToInteger(s, radix, acc) ==
    IF s = <<>> THEN acc
    ELSE DigitsToInteger(Tail(s), radix, acc * radix + DigitValue(Head(s)))

ParseInt(text) ==
    LET s0 == TrimStart(text)
        negative == s0 # <<>> /\ Head(s0) = "-"
        s1 == IF s0 # <<>> /\ Head(s0) \in {"+", "-"} THEN Tail(s0) ELSE s0
        hex == Len(s1) >= 2 /\ s1[1] = "0" /\ s1[2] \in {"x", "X"}
        s2 == IF hex THEN Tail(Tail(s1)) ELSE s1
        radix == IF hex THEN 16 ELSE 10
        z == DigitPrefix(s2, IF hex THEN HexDigits ELSE DecimalDigits)
    IN  IF z = <<>> THEN NaN
        ELSE Number((IF negative THEN -1 ELSE 1) * DigitsToInteger(z, radix, 0))

\* As OrZero, with the fallback `|| 1`.
OrZeroFallbackOne(parsed) ==
    IF parsed.nan \/ parsed.num = 0 THEN 1 ELSE parsed.num

\* `parseInt(e.target.value) || 0`: NaN, 0 and -0 are falsy.
OrZero(parsed) == IF parsed.nan \/ parsed.num = 0 THEN 0 ELSE parsed.num

\* The texts an input-change event may carry.
Texts ==
    { <<>>, <<"-">>, <<"a", "1">>,
      <<"0">>, <<"-", "0">>, <<"0", ".", "5">>,
      <<"-", "5">>,
      <<"2", "5">>, <<" ", "2", "5">>, <<"+", "2", "5">>,
      <<"2", "5", "p", "x">>, <<"2", "5", ".", "9">>, <<"0", "x", "1", "9">> }

-----------------------------------------------------------------------------
(* The component's functions.                                              *)

Max(a, b) == IF a >= b THEN a ELSE b

\* As handleInputChange, with the floor 0 for every field.
handleInputChangeFloorZero(prev, field, value) ==
    [prev EXCEPT ![field] = Max(0, value)]

\* As handleInputChange, without the spread of prev: the other fields are lost
\* (written here as falling back to their initial values).
handleInputChangeNoSpread(prev, field, value) ==
    [InitialSettings EXCEPT
        ![field] = Max(IF field = "gutterWidth" \/ field = "marginWidth"
                       THEN 0 ELSE 1, value)]

handleInputChange(prev, field, value) ==
    [prev EXCEPT
        ![field] = Max(IF field = "gutterWidth" \/ field = "marginWidth"
                       THEN 0 ELSE 1, value)]

getContentWidth(s) == s.maxWidth - s.marginWidth * 2

\* Math.trunc(a / b): rounds toward zero.
MathTruncOfQuotient(a, b) == IF a >= 0 THEN a \div b ELSE -((-a) \div b)

\* Math.round(a / b): rounds to the nearest integer, halves upward.
MathRoundOfQuotient(a, b) == (2 * a + b) \div (2 * b)

\* Math.floor(a / b) for integers a and b > 0.
MathFloorOfQuotient(a, b) == a \div b

calculateColumnWidth(s) ==
    LET totalGutters == (s.columns - 1) * s.gutterWidth
        totalMargins == s.marginWidth * 2
        contentWidth == s.maxWidth - totalMargins
        availableWidth == contentWidth - totalGutters
    IN  MathFloorOfQuotient(availableWidth, s.columns)

\* As ColumnBox, with the gutter after the last box too.
ColumnBoxGutterEverywhere(i, s, columnWidth) ==
    [key |-> i, label |-> i + 1, width |-> columnWidth,
     marginRight |-> s.gutterWidth]

\* One <div> of the preview: its label "Col n", its width and its marginRight.
ColumnBox(i, s, columnWidth) ==
    [key |-> i,
     label |-> i + 1,
     width |-> columnWidth,
     marginRight |-> IF i < s.columns - 1 THEN s.gutterWidth ELSE 0]

\* for (let i = 0; i < settings.columns; i++) columns.push(...)
RECURSIVE PushColumns(_, _, _, _)
PushColumns(i, s, columnWidth, columns) ==
    IF i < s.columns
    THEN PushColumns(i + 1, s, columnWidth,
                     Append(columns, ColumnBox(i, s, columnWidth)))
    ELSE columns

renderGridColumns(s) == PushColumns(0, s, calculateColumnWidth(s), <<>>)

-----------------------------------------------------------------------------
(* exportCSS: the parts of the stylesheet that depend on the settings.     *)

DigitChar(d) ==
    CASE d = 0 -> "0" [] d = 1 -> "1" [] d = 2 -> "2" [] d = 3 -> "3"
      [] d = 4 -> "4" [] d = 5 -> "5" [] d = 6 -> "6" [] d = 7 -> "7"
      [] d = 8 -> "8" [] d = 9 -> "9"

\* The decimal digits of a natural number, most significant first.
RECURSIVE NatToString(_)
NatToString(n) ==
    IF n < 10 THEN <<DigitChar(n)>>
    ELSE NatToString(n \div 10) \o <<DigitChar(n % 10)>>

\* The number n / 10^4 printed with exactly four fractional digits.
FixedString(n) ==
    LET frac == n % 10000
    IN  NatToString(n \div 10000) \o <<".">> \o
        <<DigitChar(frac \div 1000), DigitChar((frac \div 100) % 10),
          DigitChar((frac \div 10) % 10), DigitChar(frac % 10)>>

\* The integer n for which n / 10^4 is closest to num / den; of two equally
\* close ones the larger (Number.prototype.toFixed, step 10.a).
NearestTenThousandth(num, den) == (2 * num * 10000 + den) \div (2 * den)

\* As Percentage, with the width of one column for every class.
PercentageOfOneColumn(colNum, columns) ==
    FixedString(NearestTenThousandth(100, columns))

\* ((colNum / settings.columns) * 100).toFixed(4)
Percentage(colNum, columns) ==
    FixedString(NearestTenThousandth(colNum * 100, columns))

\* `.col-${colNum} { width: ${percentage}%; }`
ColumnWidthClass(i, s) ==
    LET colNum == i + 1
    IN  [selector |-> <<".", "c", "o", "l", "-">> \o NatToString(colNum),
         width |-> Percentage(colNum, s.columns)]

\* Array.from({ length: settings.columns }, (_, i) => ...)
ColumnWidthClasses(s) == [k \in 1..s.columns |-> ColumnWidthClass(k - 1, s)]

\* settings.gutterWidth / 2 as printed: whole pixels and an optional ".5".
HalfPixels(g) == [whole |-> g \div 2, half |-> g % 2 = 1]

cssCode(s) ==
    [title |-> s.columns,
     containerMaxWidth |-> s.maxWidth,
     containerPadding |-> s.marginWidth,
     rowMargin |-> HalfPixels(s.gutterWidth),
     colPadding |-> HalfPixels(s.gutterWidth),
     columnWidthClasses |-> ColumnWidthClasses(s),
     specifications |->
        [maxWidth |-> s.maxWidth,
         contentWidth |-> getContentWidth(s),
         columnWidth |-> calculateColumnWidth(s),
         columns |-> s.columns,
         gutterWidth |-> s.gutterWidth,
         marginWidth |-> s.marginWidth]]

\* A download: its name, `grid-system-${columns}col-${maxWidth}px.css` or
\* `grid-${columns}col-${maxWidth}px.png`, and the parts of its Blob (the
\* pixels of a PNG are not modelled). NoFile when nothing was downloaded.
File(kind, columns, maxWidth, parts) ==
    [kind |-> kind, columns |-> columns, maxWidth |-> maxWidth, parts |-> parts]

NoFile == File("none", 0, 0, <<>>)

-----------------------------------------------------------------------------
(* The handlers.                                                           *)

\* What the last handler was and what it emitted.
Event(op, field, parsed, file) ==
    [op |-> op, field |-> field, parsed |-> parsed, file |-> file]

\* gridRef is attached to a <div> that is rendered only while showGrid holds.
gridRefCurrent == showGrid

Init ==
    /\ settings = InitialSettings
    /\ isGenerating = FALSE
    /\ showGrid = TRUE
    /\ timers = 0
    /\ captures = <<>>
    /\ last = Event("mount", "none", NaN, NoFile)

\* onChange={e => handleInputChange(field, parseInt(e.target.value) || 0)}
OnChange(field, text) ==
    LET parsed == ParseInt(text)
    IN  /\ settings' = handleInputChange(settings, field, OrZero(parsed))
        /\ last' = Event("change", field, parsed, NoFile)
        /\ UNCHANGED <<isGenerating, showGrid, timers, captures>>

\* The Generate Grid button is disabled while isGenerating.
generateGrid ==
    /\ ~isGenerating
    /\ isGenerating' = TRUE
    /\ timers' = timers + 1
    /\ last' = Event("generateGrid", "none", NaN, NoFile)
    /\ UNCHANGED <<settings, showGrid, captures>>

\* As Timeout, with a callback that leaves isGenerating alone.
TimeoutKeepsGenerating ==
    /\ timers > 0
    /\ showGrid' = TRUE
    /\ timers' = timers - 1
    /\ last' = Event("timeout", "none", NaN, NoFile)
    /\ UNCHANGED <<settings, isGenerating, captures>>

\* The callback given to setTimeout by generateGrid.
Timeout ==
    /\ timers > 0
    /\ isGenerating' = FALSE
    /\ showGrid' = TRUE
    /\ timers' = timers - 1
    /\ last' = Event("timeout", "none", NaN, NoFile)
    /\ UNCHANGED <<settings, captures>>

\* exportGrid up to its await: html2canvas is called and its promise is
\* pending; the closure keeps the settings of the render it was made in, of
\* which the code after the await reads columns and maxWidth (line 51).
exportGrid ==
    /\ showGrid
    /\ gridRefCurrent
    /\ Len(captures) < MaxCaptures
    /\ captures' = Append(captures,
                          [columns |-> settings.columns,
                           maxWidth |-> settings.maxWidth])
    /\ last' = Event("exportGrid", "none", NaN, NoFile)
    /\ UNCHANGED <<settings, isGenerating, showGrid, timers>>

RemoveAt(seq, i) == SubSeq(seq, 1, i - 1) \o SubSeq(seq, i + 1, Len(seq))

\* The promise of the i-th pending capture resolves: the rest of the try block.
CaptureResolves(i) ==
    /\ captures' = RemoveAt(captures, i)
    /\ last' = Event("download", "none", NaN,
                     File("png", captures[i].columns, captures[i].maxWidth, <<>>))
    /\ UNCHANGED <<settings, isGenerating, showGrid, timers>>

\* As CaptureRejects, with a catch block that calls html2canvas again.
CaptureRejectsAndRetries(i) ==
    /\ captures' = Append(RemoveAt(captures, i), captures[i])
    /\ last' = Event("console.error", "none", NaN, NoFile)
    /\ UNCHANGED <<settings, isGenerating, showGrid, timers>>

\* The promise of the i-th pending capture rejects: the catch block.
CaptureRejects(i) ==
    /\ captures' = RemoveAt(captures, i)
    /\ last' = Event("console.error", "none", NaN, NoFile)
    /\ UNCHANGED <<settings, isGenerating, showGrid, timers>>

\* The Export CSS button is disabled while showGrid is false.
exportCSS ==
    /\ showGrid
    /\ last' = Event("exportCSS", "none", NaN,
                     File("css", settings.columns, settings.maxWidth,
                          <<cssCode(settings)>>))
    /\ UNCHANGED <<settings, isGenerating, showGrid, timers, captures>>

Next ==
    \/ \E field \in Fields, text \in Texts : OnChange(field, text)
    \/ generateGrid
    \/ Timeout
    \/ exportGrid
    \/ \E i \in 1..Len(captures) : CaptureResolves(i)
    \/ \E i \in 1..Len(captures) : CaptureRejects(i)
    \/ exportCSS

Spec == Init /\ [][Next]_vars

\* The browser runs a timer callback once its delay has passed.
LiveSpec == Spec /\ WF_vars(Timeout)

-----------------------------------------------------------------------------
(* The pure functions on every settings record of a bounded range: a       *)
(* specification that starts in any such record (each is reachable by      *)
(* typing its four numbers) and exports the stylesheet for it.             *)

\* How far beyond the columns input's max attribute the drawn column counts go.
Beyond == 1

DrawnWidths == {1, 25, 200, 1199, 1200, 2000}

DrawnColumns == 1..(MaxColumns + Beyond)

DrawnGutters == {0, 1, 20, 25, 100}

DrawnMargins == {0, 1, 40, 200, 700}

GridInit ==
    /\ settings \in [maxWidth : DrawnWidths, columns : DrawnColumns,
                     gutterWidth : DrawnGutters, marginWidth : DrawnMargins]
    /\ isGenerating = FALSE
    /\ showGrid = TRUE
    /\ timers = 0
    /\ captures = <<>>
    /\ last = Event("mount", "none", NaN, NoFile)

GridNext == exportCSS

GridSpec == GridInit /\ [][GridNext]_vars

-----------------------------------------------------------------------------
(* Properties.                                                             *)

FloorOf(field) == IF field \in {"maxWidth", "columns"} THEN 1 ELSE 0

availableWidth(s) ==
    (s.maxWidth - 2 * s.marginWidth) - s.gutterWidth * (s.columns - 1)

\* C1: calculateColumnWidth is the floor (toward negative infinity) of
\* (maxWidth - 2*marginWidth - gutterWidth*(columns-1)) / columns: it is the
\* one integer w with w*columns <= available < (w+1)*columns; it is 75 for
\* (1200, 12, 20, 40), and it is at most 0 whenever 2*marginWidth > maxWidth.
C1_ColumnWidthIsFloor ==
    LET w == calculateColumnWidth(settings)
        a == availableWidth(settings)
    IN  /\ w \in Int
        /\ w * settings.columns <= a
        /\ a < (w + 1) * settings.columns
        /\ (settings = InitialSettings => w = 75)
        /\ (2 * settings.marginWidth > settings.maxWidth => w <= 0)

\* The stylesheet was exported for margins wider than the container and an
\* available width that the column count does not divide.
C1_Witness ==
    /\ last.op = "exportCSS"
    /\ 2 * settings.marginWidth > settings.maxWidth
    /\ availableWidth(settings) % settings.columns # 0
    /\ last.file.parts[1].specifications.columnWidth < 0

\* C2: renderGridColumns yields exactly `columns` boxes labelled 1..columns in
\* order, each as wide as calculateColumnWidth(); the last box has marginRight
\* 0 and every other box has marginRight gutterWidth.
C2_ColumnBoxes ==
    LET boxes == renderGridColumns(settings)
        n == settings.columns
    IN  /\ Len(boxes) = n
        /\ \A i \in 1..n :
              /\ boxes[i].label = i
              /\ boxes[i].width = calculateColumnWidth(settings)
              /\ boxes[i].marginRight =
                    IF i = n THEN 0 ELSE settings.gutterWidth

C2_Witness ==
    /\ settings.columns > 1
    /\ settings.gutterWidth > 0
    /\ renderGridColumns(settings)[settings.columns].marginRight = 0
    /\ renderGridColumns(settings)[1].marginRight = settings.gutterWidth
    /\ last.op = "exportCSS"

\* C3: every settings record reachable through input changes has
\* columns >= 1, maxWidth >= 1, gutterWidth >= 0 and marginWidth >= 0, so the
\* divisor of the column width is never zero.
C3_FloorsHold ==
    /\ settings.columns >= 1
    /\ settings.maxWidth >= 1
    /\ settings.gutterWidth >= 0
    /\ settings.marginWidth >= 0
    /\ settings.columns # 0

\* A negative number was entered as the column count.
C3_Witness ==
    /\ last.op = "change"
    /\ last.field = "columns"
    /\ ~last.parsed.nan
    /\ last.parsed.num < 0
    /\ settings.columns = 1

\* C4: the stored column count is always in 1..24.
C4_ColumnsWithinRange == settings.columns \in 1..MaxColumns

\* C5: an input change whose text does not parse as a number leaves the field
\* at its floor (1 for maxWidth and columns, 0 for gutterWidth and
\* marginWidth) and the other fields as they were, which is the record that
\* entering 0 in that field produces.
C5_UnparsableIsZero ==
    [][(last'.op = "change" /\ last'.parsed.nan) =>
          /\ settings' = [settings EXCEPT ![last'.field] = FloorOf(last'.field)]
          /\ \E t \in Texts :
                /\ ParseInt(t) = Number(0)
                /\ settings' = handleInputChange(settings, last'.field,
                                                 OrZero(ParseInt(t)))]_vars

\* An unparsable text was entered as the gutter width, and as the maximum width.
C5_Witness ==
    /\ last.op = "change"
    /\ last.parsed.nan
    /\ last.field = "gutterWidth"
    /\ settings.gutterWidth = 0
    /\ settings.maxWidth = 1

\* The digits of a printed fixed-point number read as an integer of
\* ten-thousandths.
TenThousandths(str) == DigitsToInteger(SelectSeq(str, LAMBDA c : c # "."), 10, 0)

Abs(x) == IF x < 0 THEN -x ELSE x

\* C6: for columns in 1..24 the column-width-classes section of the stylesheet
\* that exportCSS downloads has exactly `columns` rules .col-1 .. .col-columns
\* in ascending order; the width of .col-i is (i/columns)*100 rounded to 4
\* decimal places
\* (cumulative: strictly increasing in i, 100.0000 for .col-columns).
C6_CumulativePercentages ==
    (last.op = "exportCSS" /\ settings.columns \in 1..MaxColumns) =>
        LET rules == last.file.parts[1].columnWidthClasses
            n == settings.columns
        IN  /\ DOMAIN rules = 1..n
            /\ \A i \in 1..n :
                  /\ rules[i].selector =
                        <<".", "c", "o", "l", "-">> \o NatToString(i)
                  /\ Len(rules[i].width) >= 6
                  /\ rules[i].width[Len(rules[i].width) - 4] = "."
                  /\ 2 * Abs(TenThousandths(rules[i].width) * n - i * 1000000)
                        <= n
            /\ \A i \in 1..(n - 1) :
                  TenThousandths(rules[i].width)
                      < TenThousandths(rules[i + 1].width)
            /\ rules[n].width = <<"1", "0", "0", ".", "0", "0", "0", "0">>

\* A stylesheet was exported for a column count that does not divide 100: the
\* second class is printed rounded up.
C6_Witness ==
    /\ last.op = "exportCSS"
    /\ settings.columns = 12
    /\ last.file.parts[1].columnWidthClasses[2].width =
          <<"1", "6", ".", "6", "6", "6", "7">>

\* C7: a step in which a capture fails (console.error is written) triggers no
\* download, starts no new capture, and leaves settings, isGenerating and
\* showGrid as they were.
C7_FailedCaptureChangesNothing ==
    [][last'.op = "console.error" =>
          /\ last'.file = NoFile
          /\ Len(captures') = Len(captures) - 1
          /\ settings' = settings
          /\ isGenerating' = isGenerating
          /\ showGrid' = showGrid
          /\ timers' = timers]_vars

\* A capture failed while a grid was being generated, after the settings had
\* been changed.
C7_Witness ==
    /\ last.op = "console.error"
    /\ isGenerating
    /\ settings # InitialSettings
    /\ captures = <<>>

\* C8: a step changes the settings only if it is an input change, which
\* overwrites its own field (with the entered value, raised to the floor) and
\* leaves the other three fields, and everything else, as they were.
C8_OnlyInputChangesSettings ==
    [][/\ last'.op # "change" => settings' = settings
       /\ last'.op = "change" =>
             /\ \A f \in Fields \ {last'.field} : settings'[f] = settings[f]
             /\ settings'[last'.field] =
                   Max(FloorOf(last'.field),
                       IF last'.parsed.nan THEN 0 ELSE last'.parsed.num)
             /\ UNCHANGED <<isGenerating, showGrid, timers, captures>>]_vars

\* The gutter width alone was changed, after the column count.
C8_Witness ==
    /\ last.op = "change"
    /\ last.field = "gutterWidth"
    /\ settings = [InitialSettings EXCEPT !.gutterWidth = 25, !.columns = 1]

\* C9: generateGrid sets isGenerating and starts one timer; it is never
\* started while isGenerating holds; while isGenerating holds exactly one
\* timer is pending whatever else happens; and once the timer fires
\* isGenerating is false and showGrid is true.
C9_GeneratingEnds ==
    /\ [](isGenerating <=> timers = 1)
    /\ [](timers \in {0, 1})
    /\ [][timers' > timers => ~isGenerating /\ isGenerating']_vars
    /\ [][timers' < timers => ~isGenerating' /\ showGrid']_vars
    /\ (isGenerating ~> (~isGenerating /\ showGrid))

\* The timer fired although the settings were changed and a capture was
\* started in the meantime.
C9_Witness ==
    /\ last.op = "timeout"
    /\ ~isGenerating
    /\ showGrid
    /\ captures # <<>>
    /\ settings # InitialSettings

RECURSIVE RowWidth(_)
RowWidth(boxes) ==
    IF boxes = <<>> THEN 0
    ELSE Head(boxes).width + Head(boxes).marginRight + RowWidth(Tail(boxes))

\* C10: the widths and trailing gutters of the rendered boxes add up to at
\* most the content width, and to more than the content width minus `columns`.
C10_RowFitsContent ==
    LET waste == getContentWidth(settings) - RowWidth(renderGridColumns(settings))
    IN  /\ 0 <= waste
        /\ waste <= settings.columns - 1

\* A row for a negative content width that wastes pixels.
C10_Witness ==
    /\ getContentWidth(settings) < 0
    /\ settings.columns > 1
    /\ getContentWidth(settings) - RowWidth(renderGridColumns(settings)) > 0
    /\ last.op = "change"

====
